---- MODULE Spec2Model ----
(***************************************************************************)
(* Model of the server actions of src/src/app/actions/import.ts: the       *)
(* shipment, consignee and exporter tables behind prisma, and the nine     *)
(* exported actions that read and write them on behalf of the user of the  *)
(* current session.                                                        *)
(*                                                                         *)
(* A table is a function from the ids of its committed rows to the rows.   *)
(* Ids are numbered from 1 in the order of the inserts; 0 stands for a     *)
(* null foreign key and for an absent or empty id in an input.  A          *)
(* TEXT column that holds JSON is a record [json |-> v]; a nullable        *)
(* column that was never written is NULL.  A JavaScript object whose       *)
(* optional properties are absent is a record without those fields.        *)
(*                                                                         *)
(* An action that awaits several queries is one step per query: the step    *)
(* is the query running against the tables, together with the code that     *)
(* runs when it resolves, up to the next query being issued.  Other calls   *)
(* run between the steps.  The calls that await a query are the calls in    *)
(* flight; the arguments of the query they await were computed, new Date()  *)
(* in them read, when the query was issued.  The rows a call creates inside *)
(* prisma.$transaction are seen by other calls when the transaction         *)
(* commits (read committed).                                               *)
(***************************************************************************)
EXTENDS Integers, Sequences, FiniteSets, TLC

VARIABLES
    consignees,   \* the Consignee table: the committed rows by id
    exporters,    \* the Exporter table: the committed rows by id
    shipments,    \* the Shipment table: the committed rows by id
    clock,        \* the time new Date() reads; it advances with every call that ends
    last,         \* the last call that ended: its name, session, arguments, result
    inflight      \* the calls that await a query, each with what it has read so far

vars == <<consignees, exporters, shipments, clock, last, inflight>>

-----------------------------------------------------------------------------
(* Bounds of the model. *)

MaxOps == 3
MaxShipments == 2
MaxConsignees == 2
MaxExporters == 2
MaxInflight == 2

-----------------------------------------------------------------------------
(* Sessions and the values the actions are called with. *)

Users == {"u1", "u2"}
NoSession == "none"
Sessions == Users \cup {NoSession}

NULL == [null |-> TRUE]

\* {} and []: an object is a record of its properties and an array a sequence.
\* A record without fields is the empty sequence, so the object without
\* properties is a record of its own, which has none of the properties the
\* code asks for.
EmptyObject == [object |-> "{}"]
EmptyArray == <<>>

\* new Date() at time t is the Date object [date |-> t]; a time string is
\* [iso |-> s].  JSON.stringify writes a Date as its ISO string.
ISOStrings == <<"T0", "T1", "T2", "T3", "T4", "T5", "T6", "T7">>
Date(t) == [date |-> t]
toISOString(d) == [iso |-> ISOStrings[d.date + 1]]

\* JSON.stringify and JSON.parse of the values the actions store.  The text
\* is kept as the value it denotes, wrapped so that a column is never taken
\* for its parsed content.
JSONstringify(v) == [json |-> v]
JSONparse(text) == text.json

-----------------------------------------------------------------------------
(* What an action gives back to its caller. *)

Throw(message) == [outcome |-> "throw", message |-> message]
Return(value) == [outcome |-> "return", value |-> value]

\* getCurrentUser: the user of the session, or the error it throws.
getCurrentUser(session) ==
    IF session = NoSession
    THEN [ok |-> FALSE, message |-> "Unauthorized"]
    ELSE [ok |-> TRUE, user |-> [id |-> session]]

\* The call an action records: its name, the session it ran under, its
\* arguments and what the caller got.
Call(op, session, args, result) ==
    [op |-> op, session |-> session, args |-> args, result |-> result]

\* Time passes with every call that ends: new Date() of the next one reads a
\* later time.  A call that ends with the first query it awaits, or before it,
\* leaves the calls in flight as they are; it starts only if the calls in
\* flight can still end.
Tick ==
    /\ clock + Len(inflight) < MaxOps
    /\ clock' = clock + 1
    /\ UNCHANGED inflight

\* s without its i-th element.
RemoveAt(s, i) == [j \in 1..(Len(s) - 1) |-> IF j < i THEN s[j] ELSE s[j + 1]]

\* A call comes to await a further query: it is in flight.
Await(call) ==
    /\ clock + Len(inflight) < MaxOps
    /\ Len(inflight) < MaxInflight
    /\ inflight' = Append(inflight, call)
    /\ UNCHANGED <<consignees, exporters, shipments, clock, last>>

\* The query the i-th call in flight awaits resolves and the call issues the
\* next one: call is what it knows now.
Continue(i, call) ==
    /\ inflight' = [inflight EXCEPT ![i] = call]
    /\ UNCHANGED <<consignees, exporters, shipments, clock, last>>

\* The i-th call in flight ends.
Finish(i) ==
    /\ clock < MaxOps
    /\ clock' = clock + 1
    /\ inflight' = RemoveAt(inflight, i)

-----------------------------------------------------------------------------
(* prisma queries. *)

\* Finds the shipment whoever owns it.
findUniqueShipment_AnyOwner(id, userId) ==
    IF id \in DOMAIN shipments THEN id ELSE 0

\* prisma.shipment.findUnique({ where: { id, userId } }): the row id, 0 for null.
findUniqueShipment(id, userId) ==
    IF id \in DOMAIN shipments /\ shipments[id].userId = userId THEN id ELSE 0

\* tx.consignee.findFirst({ where: { OR: [{tin}, {name}], userId } }): the rows
\* that match.  No order is asked for, so any of them may be the one returned.
findFirstConsigneeMatches(tin, name, userId) ==
    {i \in DOMAIN consignees :
        /\ consignees[i].userId = userId
        /\ (consignees[i].tin = tin \/ consignees[i].name = name)}

\* tx.exporter.findFirst({ where: { AND: [{name}, {businessAddress}], userId } }).
findFirstExporterMatches(name, address, userId) ==
    {i \in DOMAIN exporters :
        /\ exporters[i].userId = userId
        /\ exporters[i].name = name
        /\ exporters[i].businessAddress = address}

\* prisma.consignee.findUnique({ where: { id } }): the row id, 0 for null.
findUniqueConsignee(id) == IF id \in DOMAIN consignees THEN id ELSE 0

\* prisma.exporter.findUnique({ where: { id } }): the row id, 0 for null.
findUniqueExporter(id) == IF id \in DOMAIN exporters THEN id ELSE 0

\* Finds the consignee whoever owns it.
findFirstConsigneeOwned_AnyOwner(id, userId) ==
    IF id \in DOMAIN consignees THEN id ELSE 0

\* prisma.consignee.findFirst({ where: { id, userId } }): the row id, 0 for null.
findFirstConsigneeOwned(id, userId) ==
    IF id \in DOMAIN consignees /\ consignees[id].userId = userId THEN id ELSE 0

\* prisma.exporter.findFirst({ where: { id, userId } }): the row id, 0 for null.
findFirstExporterOwned(id, userId) ==
    IF id \in DOMAIN exporters /\ exporters[id].userId = userId THEN id ELSE 0

\* value === null.  null is the one value that is written out as null; an
\* object or an array is never equal to it.
IsNull(value) == ToString(value) = ToString(NULL)

\* !value: null, the empty string, 0 and false are falsy; every object and
\* every array, the empty ones too, and every other string and number is truthy.
Falsy(value) ==
    ToString(value) \in {ToString(NULL), ToString(""), ToString(0), ToString(FALSE)}

\* if (obj.field): the property is there and its value is truthy.
Truthy(obj, field) == field \in DOMAIN obj /\ ~Falsy(obj[field])

\* a || b on strings: b when a is the empty string.
OrElse(a, b) == IF a = "" THEN b ELSE a

\* obj?.field || '' on an optional object with an optional string field.
FieldOrEmpty(obj, present, field) ==
    IF present /\ field \in DOMAIN obj THEN OrElse(obj[field], "") ELSE ""

-----------------------------------------------------------------------------
(* The inputs the actions are called with. *)

\* Math.floor(Math.random() * 10000): the values drawn for a reference number.
RandomNumbers == {42}

\* formData.consignee / updates.consignee: id 0 is an absent id.
ConsigneeInput(id, name, tin) ==
    [id |-> id, name |-> name, address |-> "1 Dock Rd", tin |-> tin, brn |-> ""]

\* formData.exporter / updates.exporter.
ExporterInput(id, name, address) == [id |-> id, name |-> name, address |-> address]

\* A document checklist: one entry that has a files list, one that has none yet.
Checklist ==
    << [name |-> "BL", status |-> "pending"],
       [name |-> "INVOICE", status |-> "pending", files |-> <<>>] >>

DocumentTypes == {"BL", "INVOICE"}
FileNames == {"scan.pdf"}

ShipmentDetailsInput ==
    [contact_person |-> "Pat", contact_number |-> "555", bl_number |-> "BL-1"]

\* Form data with a consignee to look for, an exporter, details and a
\* checklist, and with the status, timeline, notes and computations that a
\* ShipmentData has and that a new shipment does not take from its form data.
FullFormData ==
    [consignee |-> ConsigneeInput(1, "Acme", "T1"),
     exporter |-> ExporterInput(0, "Xport", "Pier 1"),
     shipmentDetails |-> ShipmentDetailsInput,
     documents |-> Checklist,
     status |-> "DELIVERED",
     timeline |-> <<[status |-> "DELIVERED", timestamp |-> [iso |-> "T9"],
                     description |-> "Delivered"]>>,
     notes |-> <<"fragile">>,
     computations |-> [duty |-> 100]]

\* data.formData of createShipmentAction: a Partial<ShipmentData>.
FormDatas ==
    { EmptyObject,
      FullFormData,
      [consignee |-> ConsigneeInput(0, "Bolt", "T1")] }

\* data of createShipmentAction: sea shipments from every form data, an air
\* shipment from the full one.
ShipmentInputs ==
    { [shipmentType |-> "IMS", formData |-> formData] : formData \in FormDatas }
    \cup { [shipmentType |-> "IAS", formData |-> FullFormData] }

\* The timeline event of updateShipmentStatusAction; absent is no event.
TimelineUpdates == {[stage |-> "DOCUMENTS", status |-> "completed", timestamp |-> [iso |-> "T9"]]}
Statuses == {"DOCUMENTS"}

\* updates of updateShipmentDetailsAction: a Partial<ShipmentData>.  Each of the
\* eight fields is present in some updates and absent from others; the ids
\* name no row (0) or the first row of the table, which may not be there.  One
\* of the updates carries fields whose values are falsy: null, the empty
\* string, 0 and false.
Updates ==
    { [notes |-> NULL, cargo |-> "", statementOfFacts |-> 0, documents |-> FALSE,
       timeline |-> EmptyArray] }
    \cup
    { [consignee |-> ConsigneeInput(i, "Cargo Co", "T3"),
       shipmentDetails |-> [eta |-> "E1"],
       timeline |-> EmptyArray,
       cargo |-> <<"crate">>] : i \in {0, 1} }
    \cup
    { [exporter |-> ExporterInput(i, "Xport", "Pier 3"),
       documents |-> <<[name |-> "BL", status |-> "approved", files |-> <<>>]>>,
       notes |-> <<"call broker">>,
       statementOfFacts |-> <<"berthed">>] : i \in {0, 1} }

\* data of createClientDuringShipmentAction.
ClientDatas ==
    { [type |-> "consignee", name |-> "Acme", address |-> "9 Quay St", tin |-> "T2"],
      [type |-> "exporter", name |-> "Xport", address |-> "Pier 1"] }

ClientTypes == {"consignee", "exporter"}

\* The ids a caller names: of the first row of a table, which is there or is
\* not, and is a row of the caller or of another user.
ShipmentIds == {1}
ConsigneeIds == {1}
ExporterIds == {1}

-----------------------------------------------------------------------------
(* createShipmentAction *)

\* The rows a transaction of createShipmentAction has inserted and not yet
\* committed: other calls do not see them, and their ids are taken.
InsertedConsignees ==
    {j \in 1..Len(inflight) :
        inflight[j].op = "createShipmentAction" /\ inflight[j].newConsignee # <<>>}
InsertedExporters ==
    {j \in 1..Len(inflight) :
        inflight[j].op = "createShipmentAction" /\ inflight[j].newExporter # <<>>}
InsertedShipments ==
    {j \in 1..Len(inflight) :
        inflight[j].op = "createShipmentAction" /\ inflight[j].newShipment # <<>>}

\* The id of the next row inserted in a table: ids are given in the order of
\* the inserts, committed or not.
NextConsigneeId == Cardinality(DOMAIN consignees) + Cardinality(InsertedConsignees) + 1
NextExporterId == Cardinality(DOMAIN exporters) + Cardinality(InsertedExporters) + 1
NextShipmentId == Cardinality(DOMAIN shipments) + Cardinality(InsertedShipments) + 1

\* data of tx.consignee.create in createShipmentAction, with the createdAt the
\* schema fills in when the row is inserted.
NewConsigneeRow(formData, userId) ==
    LET c == formData.consignee
        hasDetails == "shipmentDetails" \in DOMAIN formData
        details == IF hasDetails THEN formData.shipmentDetails ELSE EmptyObject
    IN [ name |-> c.name,
         registeredName |-> c.name,
         businessAddress |-> c.address,
         tin |-> OrElse(c.tin, ""),
         brn |-> OrElse(c.brn, ""),
         contactPerson |-> FieldOrEmpty(details, hasDetails, "contact_person"),
         contactNumber |-> FieldOrEmpty(details, hasDetails, "contact_number"),
         email |-> "",
         userId |-> userId,
         createdAt |-> clock ]

\* data of tx.exporter.create in createShipmentAction, with the createdAt the
\* schema fills in when the row is inserted.
NewExporterRow(formData, userId) ==
    [ name |-> formData.exporter.name,
      businessAddress |-> formData.exporter.address,
      contactPerson |-> "",
      contactNumber |-> "",
      email |-> "",
      userId |-> userId,
      createdAt |-> clock ]

\* `CLEX-${type}${YY}-${NNNN}`
ReferenceNumber(shipmentType, random) ==
    [prefix |-> "CLEX", type |-> shipmentType, year |-> "YY", number |-> random]

\* A timeline whose one entry names another stage than the status.
CreatedTimeline_WrongStage(timestamp) ==
    << [status |-> "CREATED", timestamp |-> toISOString(Date(timestamp)),
        description |-> "Shipment created"] >>

\* The one timeline entry a shipment is created with; JSON.stringify writes
\* its timestamp, the Date read when the query was issued, as the ISO string.
CreatedTimeline(timestamp) ==
    << [status |-> "CLIENT_DETAILS", timestamp |-> toISOString(Date(timestamp)),
        description |-> "Shipment created"] >>

\* data of tx.shipment.create, with the columns the schema fills in when the
\* row is inserted.
NewShipmentRow(shipmentType, formData, userId, consigneeId, exporterId, random, timestamp) ==
    LET Field(f, default) == IF Truthy(formData, f) THEN formData[f] ELSE default
    IN [ id |-> NextShipmentId,
         referenceNumber |-> ReferenceNumber(shipmentType, random),
         freightType |-> shipmentType,
         status |-> "CLIENT_DETAILS",
         consigneeId |-> consigneeId,
         exporterId |-> exporterId,
         userId |-> userId,
         consigneeData |-> JSONstringify(Field("consignee", EmptyObject)),
         exporterData |-> JSONstringify(Field("exporter", EmptyObject)),
         shipmentDetails |-> JSONstringify(Field("shipmentDetails", EmptyObject)),
         documentsData |-> JSONstringify(Field("documents", EmptyArray)),
         timelineData |-> JSONstringify(CreatedTimeline(timestamp)),
         notesData |-> JSONstringify(EmptyArray),
         computations |-> JSONstringify(EmptyObject),
         cargoData |-> NULL,
         statementOfFactsData |-> NULL,
         isLocked |-> FALSE,
         completionDate |-> NULL,
         createdAt |-> clock,
         updatedAt |-> clock ]

\* if (formData.consignee) if (formData.consignee.id): the call awaits
\* tx.consignee.findFirst.
LooksForConsignee(formData) ==
    Truthy(formData, "consignee") /\ Truthy(formData.consignee, "id")

\* if (formData.exporter): the call awaits tx.exporter.findFirst.
LooksForExporter(formData) == Truthy(formData, "exporter")

\* The query the transaction awaits once it is done with the consignee.
QueryAfterConsignee(formData) ==
    IF LooksForExporter(formData) THEN "exporter.findFirst" ELSE "shipment.create"

\* The first query the transaction awaits.
FirstQuery(formData) ==
    IF LooksForConsignee(formData) THEN "consignee.findFirst"
    ELSE QueryAfterConsignee(formData)

\* new Date() in the data of a query, read when the query is issued; 0 for a
\* query whose data holds no time.
TimeRead(query) ==
    IF query \in {"shipment.create", "shipment.update"} THEN clock ELSE 0

\* The calls in flight whose transaction is to insert a consignee, or has
\* inserted one that it has not committed yet.
InsertingConsignee ==
    {j \in 1..Len(inflight) :
        /\ inflight[j].op = "createShipmentAction"
        /\ (inflight[j].query = "consignee.create" \/ inflight[j].newConsignee # <<>>)}

\* The calls in flight whose transaction is to insert an exporter, or has
\* inserted one that it has not committed yet.
InsertingExporter ==
    {j \in 1..Len(inflight) :
        /\ inflight[j].op = "createShipmentAction"
        /\ (inflight[j].query = "exporter.create" \/ inflight[j].newExporter # <<>>)}

\* The calls in flight whose transaction is to insert a shipment, or has
\* inserted one that it has not committed yet.
InsertingShipment ==
    {j \in 1..Len(inflight) : inflight[j].op = "createShipmentAction"}

\* The action up to the first query of its transaction: the session is
\* resolved, the transaction begun and the query issued.  A call without a
\* session throws here.  newConsignee, newExporter and newShipment are the
\* rows the transaction has inserted, none or one of each.
createShipmentAction(session, shipmentType, formData, random) ==
    LET auth == getCurrentUser(session)
        args == [shipmentType |-> shipmentType, formData |-> formData]
    IN  IF ~auth.ok
        THEN /\ last' = Call("createShipmentAction", session, args,
                             Throw("Failed to create shipment"))
             /\ Tick
             /\ UNCHANGED <<consignees, exporters, shipments>>
        ELSE /\ Cardinality(DOMAIN shipments) + Cardinality(InsertingShipment)
                    < MaxShipments
             /\ Await([op |-> "createShipmentAction", session |-> session,
                       args |-> args, random |-> random,
                       query |-> FirstQuery(formData),
                       consigneeId |-> 0, newConsignee |-> <<>>,
                       exporterId |-> 0, newExporter |-> <<>>,
                       newShipment |-> <<>>,
                       timestamp |-> TimeRead(FirstQuery(formData))])

\* tx.consignee.findFirst of the i-th call in flight: a row is found and its id
\* kept, or none is and the call goes on to insert one.
createShipmentFindConsignee(i) ==
    LET call == inflight[i]
        formData == call.args.formData
        matches == findFirstConsigneeMatches(formData.consignee.tin,
                                             formData.consignee.name, call.session)
    IN  /\ call.op = "createShipmentAction"
        /\ call.query = "consignee.findFirst"
        /\ \E existingConsignee \in IF matches = {} THEN {0} ELSE matches :
             LET query == IF existingConsignee # 0
                          THEN QueryAfterConsignee(formData)
                          ELSE "consignee.create"
             IN /\ existingConsignee = 0 =>
                      Cardinality(DOMAIN consignees) + Cardinality(InsertingConsignee)
                          < MaxConsignees
                /\ Continue(i, [call EXCEPT !.consigneeId = existingConsignee,
                                            !.query = query,
                                            !.timestamp = TimeRead(query)])

\* tx.consignee.create of the i-th call in flight: the row is inserted in the
\* transaction, with the next id and the time of the insert.
createShipmentCreateConsignee(i) ==
    LET call == inflight[i]
        query == QueryAfterConsignee(call.args.formData)
    IN  /\ call.op = "createShipmentAction"
        /\ call.query = "consignee.create"
        /\ Continue(i, [call EXCEPT
                            !.consigneeId = NextConsigneeId,
                            !.newConsignee =
                                <<NewConsigneeRow(call.args.formData, call.session)>>,
                            !.query = query,
                            !.timestamp = TimeRead(query)])

\* tx.exporter.findFirst of the i-th call in flight.
createShipmentFindExporter(i) ==
    LET call == inflight[i]
        formData == call.args.formData
        matches == findFirstExporterMatches(formData.exporter.name,
                                            formData.exporter.address, call.session)
    IN  /\ call.op = "createShipmentAction"
        /\ call.query = "exporter.findFirst"
        /\ \E existingExporter \in IF matches = {} THEN {0} ELSE matches :
             LET query == IF existingExporter # 0 THEN "shipment.create"
                          ELSE "exporter.create"
             IN /\ existingExporter = 0 =>
                      Cardinality(DOMAIN exporters) + Cardinality(InsertingExporter)
                          < MaxExporters
                /\ Continue(i, [call EXCEPT !.exporterId = existingExporter,
                                            !.query = query,
                                            !.timestamp = TimeRead(query)])

\* tx.exporter.create of the i-th call in flight: the row is inserted in the
\* transaction, with the next id and the time of the insert.
createShipmentCreateExporter(i) ==
    LET call == inflight[i]
    IN  /\ call.op = "createShipmentAction"
        /\ call.query = "exporter.create"
        /\ Continue(i, [call EXCEPT
                            !.exporterId = NextExporterId,
                            !.newExporter =
                                <<NewExporterRow(call.args.formData, call.session)>>,
                            !.query = "shipment.create",
                            !.timestamp = TimeRead("shipment.create")])

\* tx.shipment.create of the i-th call in flight: the shipment is inserted in
\* the transaction, with the next id and the time of the insert, linked to the
\* consignee and exporter found or inserted; the callback returns and the
\* commit is issued.
createShipmentCreate(i) ==
    LET call == inflight[i]
        shipment == NewShipmentRow(call.args.shipmentType, call.args.formData,
                                   call.session, call.consigneeId, call.exporterId,
                                   call.random, call.timestamp)
    IN  /\ call.op = "createShipmentAction"
        /\ call.query = "shipment.create"
        /\ Continue(i, [call EXCEPT !.newShipment = <<shipment>>,
                                    !.query = "commit",
                                    !.timestamp = TimeRead("commit")])

\* The commit of the transaction of the i-th call in flight, and its return:
\* the rows the transaction inserted join the tables.
createShipmentCommit(i) ==
    LET call == inflight[i]
        shipment == call.newShipment[1]
    IN  /\ call.op = "createShipmentAction"
        /\ call.query = "commit"
        /\ Finish(i)
        /\ consignees' =
               IF call.newConsignee # <<>>
               THEN consignees @@ (call.consigneeId :> call.newConsignee[1])
               ELSE consignees
        /\ exporters' =
               IF call.newExporter # <<>>
               THEN exporters @@ (call.exporterId :> call.newExporter[1])
               ELSE exporters
        /\ shipments' = shipments @@ (shipment.id :> shipment)
        /\ last' = Call("createShipmentAction", call.session, call.args,
                        Return([success |-> TRUE,
                                referenceNumber |-> shipment.referenceNumber,
                                shipment |-> shipment]))

-----------------------------------------------------------------------------
(* createClientDuringShipmentAction *)

\* data.field || '' for a field the caller may leave out.
DataOrEmpty(data, field) == IF field \in DOMAIN data THEN OrElse(data[field], "") ELSE ""

createClientDuringShipmentAction(session, data) ==
    LET auth == getCurrentUser(session)
    IN  IF ~auth.ok
        THEN /\ last' = Call("createClientDuringShipmentAction", session, data,
                             Return([success |-> FALSE, error |-> auth.message]))
             /\ Tick
             /\ UNCHANGED <<consignees, exporters, shipments>>
        ELSE IF data.type = "consignee"
        THEN LET consignee ==
                     [ name |-> data.name,
                       businessAddress |-> data.address,
                       registeredName |->
                           IF DataOrEmpty(data, "registeredName") = ""
                           THEN data.name ELSE data.registeredName,
                       tin |-> DataOrEmpty(data, "tin"),
                       brn |-> DataOrEmpty(data, "brn"),
                       contactPerson |-> DataOrEmpty(data, "contactPerson"),
                       contactNumber |-> DataOrEmpty(data, "contactNumber"),
                       email |-> DataOrEmpty(data, "email"),
                       userId |-> auth.user.id,
                       createdAt |-> clock ]
             IN  /\ Tick
                 /\ Cardinality(DOMAIN consignees) + Cardinality(InsertingConsignee)
                        < MaxConsignees
                 /\ consignees' = consignees @@ (NextConsigneeId :> consignee)
                 /\ last' = Call("createClientDuringShipmentAction", session, data,
                                 Return([success |-> TRUE,
                                         client |-> [id |-> NextConsigneeId,
                                                     row |-> consignee]]))
                 /\ UNCHANGED <<exporters, shipments>>
        ELSE LET exporter ==
                     [ name |-> data.name,
                       businessAddress |-> data.address,
                       contactPerson |-> DataOrEmpty(data, "contactPerson"),
                       contactNumber |-> DataOrEmpty(data, "contactNumber"),
                       email |-> DataOrEmpty(data, "email"),
                       userId |-> auth.user.id,
                       createdAt |-> clock ]
             IN  /\ Tick
                 /\ Cardinality(DOMAIN exporters) + Cardinality(InsertingExporter)
                        < MaxExporters
                 /\ exporters' = exporters @@ (NextExporterId :> exporter)
                 /\ last' = Call("createClientDuringShipmentAction", session, data,
                                 Return([success |-> TRUE,
                                         client |-> [id |-> NextExporterId,
                                                     row |-> exporter]]))
                 /\ UNCHANGED <<consignees, shipments>>

-----------------------------------------------------------------------------
(* The read actions and the view they build. *)

\* findMany({ where: { userId }, orderBy: { createdAt: 'desc' } }): the ids of
\* the rows of a table that a user owns, newest first.  Rows of equal
\* createdAt come in an order the query does not fix, so every such order is
\* a result.
findManyOwned(table, userId) ==
    LET owned == {i \in DOMAIN table : table[i].userId = userId}
        n == Cardinality(owned)
    IN {ids \in [1..n -> owned] :
          /\ \A a, b \in 1..n : a # b => ids[a] # ids[b]
          /\ \A a \in 1..(n - 1) :
                table[ids[a]].createdAt >= table[ids[a + 1]].createdAt}

\* The consignee of a view, read from the linked row.
ConsigneeView(id) ==
    LET c == consignees[id]
    IN [ id |-> id, name |-> c.name, address |-> c.businessAddress, tin |-> c.tin,
         brn |-> c.brn, contactPerson |-> c.contactPerson,
         contactNumber |-> c.contactNumber, email |-> c.email,
         documents |-> EmptyArray ]

\* The exporter of a view, read from the linked row.
ExporterView(id) ==
    LET e == exporters[id]
    IN [ id |-> id, name |-> e.name, address |-> e.businessAddress,
         contactPerson |-> e.contactPerson, contactNumber |-> e.contactNumber,
         email |-> e.email ]

\* The ShipmentData built from a shipment row and its linked rows: the linked
\* row when there is one, the stored snapshot otherwise.
ShipmentView(shipment) ==
    [ id |-> shipment.id,
      referenceNumber |-> shipment.referenceNumber,
      status |-> shipment.status,
      consignee |-> IF shipment.consigneeId # 0
                    THEN ConsigneeView(shipment.consigneeId)
                    ELSE JSONparse(shipment.consigneeData),
      exporter |-> IF shipment.exporterId # 0
                   THEN ExporterView(shipment.exporterId)
                   ELSE JSONparse(shipment.exporterData),
      shipmentDetails |-> JSONparse(shipment.shipmentDetails),
      documents |-> JSONparse(shipment.documentsData),
      timeline |-> JSONparse(shipment.timelineData),
      notes |-> JSONparse(shipment.notesData),
      computations |-> JSONparse(shipment.computations),
      cargo |-> IF shipment.cargoData = NULL THEN EmptyArray
                ELSE JSONparse(shipment.cargoData),
      statementOfFacts |-> IF shipment.statementOfFactsData = NULL THEN EmptyArray
                           ELSE JSONparse(shipment.statementOfFactsData) ]

getShipmentByIdAction(session, id) ==
    LET auth == getCurrentUser(session)
        found == IF auth.ok THEN findUniqueShipment(id, auth.user.id) ELSE 0
        result == IF found = 0
                  THEN Return([null |-> TRUE])
                  ELSE Return([null |-> FALSE, data |-> ShipmentView(shipments[found])])
    IN  /\ last' = Call("getShipmentByIdAction", session, [id |-> id], result)
        /\ Tick
        /\ UNCHANGED <<consignees, exporters, shipments>>

\* One ShipmentListItem of getShipmentsAction.  blNumber and awbNumber are
\* undefined, which is the property left out, for a shipment of the other
\* type and for one whose details hold no such number; eta is null when the
\* details hold none.
ShipmentListItem(shipment) ==
    LET details == JSONparse(shipment.shipmentDetails)
        snapshot == JSONparse(shipment.consigneeData)
        shipmentType == IF shipment.freightType = "IMS" THEN "sea" ELSE "air"
        linkedName == IF shipment.consigneeId # 0
                      THEN consignees[shipment.consigneeId].name ELSE ""
        snapshotName == IF "name" \in DOMAIN snapshot THEN snapshot.name ELSE ""
        item ==
           [ id |-> shipment.id,
         referenceNumber |-> shipment.referenceNumber,
         consignee |-> OrElse(linkedName, OrElse(snapshotName, "N/A")),
         type |-> shipmentType,
         status |-> shipment.status,
         eta |-> IF Truthy(details, "eta") THEN details.eta ELSE NULL,
         completionDate |-> shipment.completionDate,
         lastUpdate |-> toISOString(Date(shipment.updatedAt)),
         isLocked |-> shipment.isLocked ]
    IN IF shipmentType = "sea" /\ Truthy(details, "bl_number")
       THEN item @@ [blNumber |-> details.bl_number]
       ELSE IF shipmentType = "air" /\ Truthy(details, "awb_number")
       THEN item @@ [awbNumber |-> details.awb_number]
       ELSE item

getShipmentsAction(session) ==
    LET auth == getCurrentUser(session)
    IN  /\ IF ~auth.ok
           THEN last' = Call("getShipmentsAction", session, EmptyObject,
                             Return([success |-> FALSE, data |-> EmptyArray]))
           ELSE \E ids \in findManyOwned(shipments, auth.user.id) :
                  last' = Call("getShipmentsAction", session, EmptyObject,
                               Return([success |-> TRUE,
                                       data |-> [i \in DOMAIN ids |->
                                                   ShipmentListItem(shipments[ids[i]])]]))
        /\ Tick
        /\ UNCHANGED <<consignees, exporters, shipments>>

\* One saved consignee of getSavedEntitiesAction.
SavedConsignee(id) ==
    [ id |-> id,
      name |-> consignees[id].name,
      address |-> consignees[id].businessAddress,
      tin |-> consignees[id].tin,
      brn |-> consignees[id].brn,
      contactPerson |-> consignees[id].contactPerson,
      contactNumber |-> consignees[id].contactNumber,
      email |-> consignees[id].email ]

\* One saved exporter of getSavedEntitiesAction.
SavedExporter(id) ==
    [ id |-> id,
      name |-> exporters[id].name,
      address |-> exporters[id].businessAddress,
      contactPerson |-> exporters[id].contactPerson,
      contactNumber |-> exporters[id].contactNumber,
      email |-> exporters[id].email ]

getSavedEntitiesAction(session, type) ==
    LET auth == getCurrentUser(session)
        args == [type |-> type]
    IN  /\ IF ~auth.ok
           THEN last' = Call("getSavedEntitiesAction", session, args,
                             Return(EmptyArray))
           ELSE IF type = "consignee"
           THEN \E ids \in findManyOwned(consignees, auth.user.id) :
                  last' = Call("getSavedEntitiesAction", session, args,
                               Return([i \in DOMAIN ids |-> SavedConsignee(ids[i])]))
           ELSE \E ids \in findManyOwned(exporters, auth.user.id) :
                  last' = Call("getSavedEntitiesAction", session, args,
                               Return([i \in DOMAIN ids |-> SavedExporter(ids[i])]))
        /\ Tick
        /\ UNCHANGED <<consignees, exporters, shipments>>

-----------------------------------------------------------------------------
(* processDocumentUploadAction *)

\* `/simulated-uploads/${shipmentId}/${documentType}-${timestamp}-${file.name}`
SimulatedUrl(shipmentId, documentType, timestamp, fileName) ==
    [ shipmentId |-> shipmentId, documentType |-> documentType,
      timestamp |-> timestamp, fileName |-> fileName ]

\* documents.map(doc => doc.name === documentType ? {...doc, status, files} : doc)
UpdatedDocuments(documents, documentType, simulatedUrl) ==
    [ i \in 1..Len(documents) |->
        IF documents[i].name = documentType
        THEN [ f \in DOMAIN documents[i] \cup {"status", "files"} |->
                 IF f = "status" THEN "draft"
                 ELSE IF f = "files"
                      THEN Append(IF "files" \in DOMAIN documents[i]
                                  THEN documents[i].files ELSE EmptyArray,
                                  simulatedUrl)
                      ELSE documents[i][f] ]
        ELSE documents[i] ]

\* The action up to its await of the upload delay: the session is resolved and
\* the shipment read; a call that finds no shipment of the user ends here.
processDocumentUploadRead(session, shipmentId, documentType, fileName) ==
    LET auth == getCurrentUser(session)
        args == [shipmentId |-> shipmentId, documentType |-> documentType,
                 file |-> fileName]
        found == IF auth.ok THEN findUniqueShipment(shipmentId, auth.user.id) ELSE 0
    IN  IF found = 0
        THEN /\ last' = Call("processDocumentUploadAction", session, args,
                             Throw("Failed to process document upload"))
             /\ Tick
             /\ UNCHANGED <<consignees, exporters, shipments>>
        ELSE Await([op |-> "processDocumentUploadAction", session |-> session,
                    args |-> args, shipment |-> shipments[found],
                    startedAt |-> clock, query |-> "delay", timestamp |-> 0])

\* The upload delay of the i-th call in flight ends: the time is read for the
\* name of the file, the documents of the shipment as it was read are updated
\* and the update is issued.
processDocumentUploadDelay(i) ==
    LET call == inflight[i]
    IN  /\ call.op = "processDocumentUploadAction"
        /\ call.query = "delay"
        /\ Continue(i, [call EXCEPT !.query = "shipment.update",
                                    !.timestamp = clock])

\* prisma.shipment.update of the i-th call in flight, and its return: the
\* documents made when the delay ended are written.
processDocumentUploadWrite(i) ==
    LET call == inflight[i]
        shipmentId == call.args.shipmentId
        simulatedUrl == SimulatedUrl(shipmentId, call.args.documentType,
                                     call.timestamp, call.args.file)
        documents == JSONparse(call.shipment.documentsData)
        updatedDocuments ==
            UpdatedDocuments(documents, call.args.documentType, simulatedUrl)
    IN  /\ call.op = "processDocumentUploadAction"
        /\ call.query = "shipment.update"
        /\ Finish(i)
        /\ shipments' = [shipments EXCEPT ![shipmentId].documentsData =
                             JSONstringify(updatedDocuments)]
        /\ last' = Call("processDocumentUploadAction", call.session, call.args,
                        Return([success |-> TRUE, fileUrl |-> simulatedUrl,
                                status |-> "draft"]))
        /\ UNCHANGED <<consignees, exporters>>

-----------------------------------------------------------------------------
(* updateShipmentStatusAction *)

\* timelineUpdate ? [...timeline, timelineUpdate] : timeline; the event is a
\* sequence of at most one element, empty when the caller passes none.
UpdatedTimeline(timeline, timelineUpdate) ==
    IF timelineUpdate # <<>> THEN Append(timeline, timelineUpdate[1]) ELSE timeline

\* The action up to its await of the update: the session is resolved and the
\* shipment read; a call that finds no shipment of the user returns false.  The
\* others make the timeline, read the time for updatedAt and issue the update.
updateShipmentStatusRead(session, id, status, timelineUpdate) ==
    LET auth == getCurrentUser(session)
        args == [id |-> id, status |-> status, timelineUpdate |-> timelineUpdate]
        found == IF auth.ok THEN findUniqueShipment(id, auth.user.id) ELSE 0
    IN  IF found = 0
        THEN /\ last' = Call("updateShipmentStatusAction", session, args, Return(FALSE))
             /\ Tick
             /\ UNCHANGED <<consignees, exporters, shipments>>
        ELSE Await([op |-> "updateShipmentStatusAction", session |-> session,
                    args |-> args, shipment |-> shipments[found],
                    query |-> "shipment.update",
                    timestamp |-> TimeRead("shipment.update")])

\* prisma.shipment.update of the i-th call in flight: the status, the timeline
\* of the shipment as it was read with the event appended, and the updatedAt
\* that was read when the update was issued.
updateShipmentStatusWrite(i) ==
    LET call == inflight[i]
        id == call.args.id
        timeline == JSONparse(call.shipment.timelineData)
        updatedTimeline == UpdatedTimeline(timeline, call.args.timelineUpdate)
    IN  /\ call.op = "updateShipmentStatusAction"
        /\ Finish(i)
        /\ shipments' = [shipments EXCEPT
                             ![id].status = call.args.status,
                             ![id].timelineData = JSONstringify(updatedTimeline),
                             ![id].updatedAt = call.timestamp]
        /\ last' = Call("updateShipmentStatusAction", call.session, call.args,
                        Return(TRUE))
        /\ UNCHANGED <<consignees, exporters>>

-----------------------------------------------------------------------------
(* updateShipmentDetailsAction *)

\* Writes an empty object over the column of a field that is absent.
Overwrite_DefaultsAbsent(updates, field, old) ==
    IF Truthy(updates, field)
    THEN JSONstringify(updates[field])
    ELSE JSONstringify(EmptyObject)

\* if (updates.field) updateData.column = JSON.stringify(updates.field): the
\* text the column holds after the update, old being what it held before.
Overwrite(updates, field, old) ==
    IF Truthy(updates, field) THEN JSONstringify(updates[field]) ELSE old

\* if (updates.consignee.id): the call awaits prisma.consignee.findUnique.
LooksUpConsignee(updates) ==
    Truthy(updates, "consignee") /\ Truthy(updates.consignee, "id")

\* if (updates.exporter.id): the call awaits prisma.exporter.findUnique.
LooksUpExporter(updates) ==
    Truthy(updates, "exporter") /\ Truthy(updates.exporter, "id")

\* The query a details update awaits next, after the one it awaited at.
NextQuery(updates, at) ==
    IF at = "shipment" /\ LooksUpConsignee(updates) THEN "consignee.findUnique"
    ELSE IF at # "exporter" /\ LooksUpExporter(updates) THEN "exporter.findUnique"
    ELSE "shipment.update"

\* The row after prisma.shipment.update with updateData and updatedAt: the
\* columns named in updateData are written, the others are left as stored.
\* consigneeId and exporterId are the locals of the call, which start from the
\* shipment as it was read; updatedAt is the time read when the update was
\* issued.
UpdateData(stored, updates, consigneeId, exporterId, updatedAt) ==
    [ stored EXCEPT
        !.consigneeId = IF Truthy(updates, "consignee") THEN consigneeId ELSE @,
        !.consigneeData = Overwrite(updates, "consignee", @),
        !.exporterId = IF Truthy(updates, "exporter") THEN exporterId ELSE @,
        !.exporterData = Overwrite(updates, "exporter", @),
        !.shipmentDetails = Overwrite(updates, "shipmentDetails", @),
        !.documentsData = Overwrite(updates, "documents", @),
        !.timelineData = Overwrite(updates, "timeline", @),
        !.notesData = Overwrite(updates, "notes", @),
        !.cargoData = Overwrite(updates, "cargo", @),
        !.statementOfFactsData = Overwrite(updates, "statementOfFacts", @),
        !.updatedAt = updatedAt ]

\* The action up to its next await: the session is resolved and the shipment
\* read; a call that finds no shipment of the user ends here.
updateShipmentDetailsRead(session, id, updates) ==
    LET auth == getCurrentUser(session)
        args == [id |-> id, updates |-> updates]
        found == IF auth.ok THEN findUniqueShipment(id, auth.user.id) ELSE 0
    IN  IF found = 0
        THEN /\ last' = Call("updateShipmentDetailsAction", session, args,
                             Return([success |-> FALSE,
                                     error |-> IF auth.ok THEN "Shipment not found"
                                               ELSE auth.message]))
             /\ Tick
             /\ UNCHANGED <<consignees, exporters, shipments>>
        ELSE Await([op |-> "updateShipmentDetailsAction", session |-> session,
                    args |-> args, shipment |-> shipments[found],
                    query |-> NextQuery(updates, "shipment"),
                    timestamp |-> TimeRead(NextQuery(updates, "shipment")),
                    consigneeId |-> shipments[found].consigneeId,
                    exporterId |-> shipments[found].exporterId])

\* prisma.consignee.findUnique of the i-th call in flight.
updateShipmentDetailsFindConsignee(i) ==
    LET call == inflight[i]
        consignee == findUniqueConsignee(call.args.updates.consignee.id)
    IN  /\ call.op = "updateShipmentDetailsAction"
        /\ call.query = "consignee.findUnique"
        /\ Continue(i, [call EXCEPT
                            !.consigneeId = IF consignee # 0 THEN consignee ELSE @,
                            !.query = NextQuery(call.args.updates, "consignee"),
                            !.timestamp =
                                TimeRead(NextQuery(call.args.updates, "consignee"))])

\* prisma.exporter.findUnique of the i-th call in flight.
updateShipmentDetailsFindExporter(i) ==
    LET call == inflight[i]
        exporter == findUniqueExporter(call.args.updates.exporter.id)
    IN  /\ call.op = "updateShipmentDetailsAction"
        /\ call.query = "exporter.findUnique"
        /\ Continue(i, [call EXCEPT
                            !.exporterId = IF exporter # 0 THEN exporter ELSE @,
                            !.query = NextQuery(call.args.updates, "exporter"),
                            !.timestamp =
                                TimeRead(NextQuery(call.args.updates, "exporter"))])

\* prisma.shipment.update of the i-th call in flight, and the view returned.
updateShipmentDetailsWrite(i) ==
    LET call == inflight[i]
        id == call.args.id
        updated == UpdateData(shipments[id], call.args.updates,
                              call.consigneeId, call.exporterId, call.timestamp)
    IN  /\ call.op = "updateShipmentDetailsAction"
        /\ call.query = "shipment.update"
        /\ Finish(i)
        /\ shipments' = [shipments EXCEPT ![id] = updated]
        /\ last' = Call("updateShipmentDetailsAction", call.session, call.args,
                        Return([success |-> TRUE, data |-> ShipmentView(updated)]))
        /\ UNCHANGED <<consignees, exporters>>

-----------------------------------------------------------------------------
(* linkClientToShipmentAction *)

\* `${type} not found or unauthorized`
NotFoundMessage(type) ==
    IF type = "consignee" THEN "consignee not found or unauthorized"
    ELSE "exporter not found or unauthorized"

\* The action up to its await of the client: the session is resolved and the
\* shipment read; a call that finds no shipment of the user ends here.
linkClientToShipmentAction(session, shipmentId, clientId, type) ==
    LET auth == getCurrentUser(session)
        args == [shipmentId |-> shipmentId, clientId |-> clientId, type |-> type]
        found == IF auth.ok THEN findUniqueShipment(shipmentId, auth.user.id) ELSE 0
    IN  IF found = 0
        THEN /\ last' = Call("linkClientToShipmentAction", session, args,
                             Return([success |-> FALSE,
                                     error |-> IF ~auth.ok THEN auth.message
                                               ELSE "Shipment not found"]))
             /\ Tick
             /\ UNCHANGED <<consignees, exporters, shipments>>
        ELSE Await([op |-> "linkClientToShipmentAction", session |-> session,
                    args |-> args,
                    query |-> IF type = "consignee" THEN "consignee.findFirst"
                              ELSE "exporter.findFirst"])

\* prisma.consignee.findFirst or prisma.exporter.findFirst of the i-th call in
\* flight: a call that finds no client of the user ends here, the others issue
\* the update.
linkClientToShipmentFindClient(i) ==
    LET call == inflight[i]
        clientExists ==
            IF call.args.type = "consignee"
            THEN findFirstConsigneeOwned(call.args.clientId, call.session)
            ELSE findFirstExporterOwned(call.args.clientId, call.session)
    IN  /\ call.op = "linkClientToShipmentAction"
        /\ call.query \in {"consignee.findFirst", "exporter.findFirst"}
        /\ IF clientExists = 0
           THEN /\ Finish(i)
                /\ last' = Call("linkClientToShipmentAction", call.session, call.args,
                                Return([success |-> FALSE,
                                        error |-> NotFoundMessage(call.args.type)]))
                /\ UNCHANGED <<consignees, exporters, shipments>>
           ELSE Continue(i, [call EXCEPT !.query = "shipment.update"])

\* prisma.shipment.update of the i-th call in flight, and its return: the
\* shipment is linked to the client.
linkClientToShipmentWrite(i) ==
    LET call == inflight[i]
        shipmentId == call.args.shipmentId
        updated ==
            IF call.args.type = "consignee"
            THEN [shipments[shipmentId] EXCEPT !.consigneeId = call.args.clientId]
            ELSE [shipments[shipmentId] EXCEPT !.exporterId = call.args.clientId]
    IN  /\ call.op = "linkClientToShipmentAction"
        /\ call.query = "shipment.update"
        /\ Finish(i)
        /\ shipments' = [shipments EXCEPT ![shipmentId] = updated]
        /\ last' = Call("linkClientToShipmentAction", call.session, call.args,
                        Return([success |-> TRUE, shipment |-> updated]))
        /\ UNCHANGED <<consignees, exporters>>

-----------------------------------------------------------------------------
(* The specification. *)

Init ==
    /\ consignees = <<>>
    /\ exporters = <<>>
    /\ shipments = <<>>
    /\ clock = 0
    /\ last = Call("none", NoSession, EmptyObject, Return(EmptyObject))
    /\ inflight = <<>>

Next ==
    \/ \E session \in Sessions, data \in ShipmentInputs, random \in RandomNumbers :
          createShipmentAction(session, data.shipmentType, data.formData, random)
    \/ \E i \in 1..Len(inflight) : createShipmentFindConsignee(i)
    \/ \E i \in 1..Len(inflight) : createShipmentCreateConsignee(i)
    \/ \E i \in 1..Len(inflight) : createShipmentFindExporter(i)
    \/ \E i \in 1..Len(inflight) : createShipmentCreateExporter(i)
    \/ \E i \in 1..Len(inflight) : createShipmentCreate(i)
    \/ \E i \in 1..Len(inflight) : createShipmentCommit(i)
    \/ \E session \in Sessions, type \in ClientTypes :
          getSavedEntitiesAction(session, type)
    \/ \E session \in Sessions, shipmentId \in ShipmentIds,
          documentType \in DocumentTypes, fileName \in FileNames :
          processDocumentUploadRead(session, shipmentId, documentType, fileName)
    \/ \E i \in 1..Len(inflight) : processDocumentUploadDelay(i)
    \/ \E i \in 1..Len(inflight) : processDocumentUploadWrite(i)
    \/ \E session \in Sessions : getShipmentsAction(session)
    \/ \E session \in Sessions, id \in ShipmentIds : getShipmentByIdAction(session, id)
    \/ \E session \in Sessions, id \in ShipmentIds, status \in Statuses,
          timelineUpdate \in {<<>>} \cup {<<e>> : e \in TimelineUpdates} :
          updateShipmentStatusRead(session, id, status, timelineUpdate)
    \/ \E i \in 1..Len(inflight) : updateShipmentStatusWrite(i)
    \/ \E session \in Sessions, id \in ShipmentIds, updates \in Updates :
          updateShipmentDetailsRead(session, id, updates)
    \/ \E i \in 1..Len(inflight) : updateShipmentDetailsFindConsignee(i)
    \/ \E i \in 1..Len(inflight) : updateShipmentDetailsFindExporter(i)
    \/ \E i \in 1..Len(inflight) : updateShipmentDetailsWrite(i)
    \/ \E session \in Sessions, shipmentId \in ShipmentIds,
          clientId \in ConsigneeIds \cup ExporterIds, type \in ClientTypes :
          linkClientToShipmentAction(session, shipmentId, clientId, type)
    \/ \E i \in 1..Len(inflight) : linkClientToShipmentFindClient(i)
    \/ \E i \in 1..Len(inflight) : linkClientToShipmentWrite(i)
    \/ \E session \in Sessions, data \in ClientDatas :
          createClientDuringShipmentAction(session, data)

Spec == Init /\ [][Next]_vars

-----------------------------------------------------------------------------
(* Notions the properties below are stated with. *)

\* A call of op ended in the step just taken.
Called(op) == clock' = clock + 1 /\ last'.op = op

\* The stored timeline, documents list and so on of a shipment row.
TimelineOf(shipment) == JSONparse(shipment.timelineData)
DocumentsOf(shipment) == JSONparse(shipment.documentsData)

IsPrefix(s, t) == Len(s) <= Len(t) /\ \A i \in 1..Len(s) : s[i] = t[i]

\* The column that stores each field of a details update.
DetailFields ==
    { "consignee", "exporter", "shipmentDetails", "documents",
      "timeline", "notes", "cargo", "statementOfFacts" }
ColumnOf(field) ==
    CASE field = "consignee" -> "consigneeData"
      [] field = "exporter" -> "exporterData"
      [] field = "shipmentDetails" -> "shipmentDetails"
      [] field = "documents" -> "documentsData"
      [] field = "timeline" -> "timelineData"
      [] field = "notes" -> "notesData"
      [] field = "cargo" -> "cargoData"
      [] field = "statementOfFacts" -> "statementOfFactsData"

\* The call was a details update that reported success.
DetailsUpdated(call) ==
    /\ call.op = "updateShipmentDetailsAction"
    /\ call.result.value.success

\* The column holds the JSON text of the value.
Stores(column, value) ==
    /\ column # NULL
    /\ IF Falsy(value)
       THEN ToString(JSONparse(column)) = ToString(value)
       ELSE ~Falsy(JSONparse(column)) /\ JSONparse(column) = value

-----------------------------------------------------------------------------
(* C1 *)

\* C1 as claimed: a successful updateShipmentDetailsAction leaves the stored
\* JSON of every field that is absent from updates as it was, and stores
\* exactly the supplied value for every field that is present.
C1_DetailsFrame ==
    [][ (Called("updateShipmentDetailsAction") /\ DetailsUpdated(last')) =>
          LET id == last'.args.id
              updates == last'.args.updates
          IN \A f \in DetailFields :
                IF f \in DOMAIN updates
                THEN Stores(shipments'[id][ColumnOf(f)], updates[f])
                ELSE shipments'[id][ColumnOf(f)] = shipments[id][ColumnOf(f)] ]_vars

\* C1 as amended: a successful updateShipmentDetailsAction stores exactly the
\* supplied value for every field that is present with a truthy value (an
\* object or an array, a non-empty string, a number other than 0, true), and
\* leaves the stored JSON of every other field as it was: of a field that is
\* absent and of a field that is present with null, "", 0 or false.
C1_DetailsFrameTruthy ==
    [][ (Called("updateShipmentDetailsAction") /\ DetailsUpdated(last')) =>
          LET id == last'.args.id
              updates == last'.args.updates
          IN \A f \in DetailFields :
                IF Truthy(updates, f)
                THEN Stores(shipments'[id][ColumnOf(f)], updates[f])
                ELSE shipments'[id][ColumnOf(f)] = shipments[id][ColumnOf(f)] ]_vars

\* A successful update with notes null, documents false and an empty timeline,
\* on a shipment whose notes an earlier update has written: the notes are as
\* that update left them, the timeline is the empty one supplied.
C1_Witness ==
    /\ DetailsUpdated(last)
    /\ "notes" \in DOMAIN last.args.updates
    /\ IsNull(last.args.updates.notes)
    /\ "documents" \in DOMAIN last.args.updates
    /\ Falsy(last.args.updates.documents)
    /\ shipments[last.args.id].notesData = [json |-> <<"call broker">>]
    /\ shipments[last.args.id].timelineData = [json |-> <<>>]

-----------------------------------------------------------------------------
(* C2 *)

\* C2 as claimed: an updateShipmentStatusAction that returns true stores the
\* supplied status; with an event the stored timeline is the timeline stored
\* before with the event appended last, every earlier entry kept in its place;
\* without an event the timeline is unchanged.
C2_StatusAppends ==
    [][ (Called("updateShipmentStatusAction") /\ last'.result = Return(TRUE)) =>
          LET id == last'.args.id
              event == last'.args.timelineUpdate
              before == TimelineOf(shipments[id])
              after == TimelineOf(shipments'[id])
          IN /\ shipments'[id].status = last'.args.status
             /\ IF event # <<>>
                THEN after = before \o event
                ELSE after = before ]_vars

-----------------------------------------------------------------------------
(* C3 *)

\* The step replaced the timeline of shipment id through a details update.
TimelineReplaced(id) ==
    /\ Called("updateShipmentDetailsAction")
    /\ DetailsUpdated(last')
    /\ last'.args.id = id
    /\ Truthy(last'.args.updates, "timeline")

\* C3 as claimed, for every step but the one in which a successful
\* updateShipmentDetailsAction with a timeline field stores the supplied
\* timeline: the stored timeline of every shipment is a prefix of its timeline
\* after the step, so that no entry is removed, replaced or reordered.
C3_AppendOnly ==
    [][ \A id \in DOMAIN shipments :
          TimelineReplaced(id)
          \/ IsPrefix(TimelineOf(shipments[id]), TimelineOf(shipments'[id])) ]_vars

-----------------------------------------------------------------------------
(* C4 *)

\* C4: getShipmentByIdAction changes no stored state; for a shipment another
\* user owns it returns the null it returns for an id no shipment has, and it
\* returns a view, of that shipment, only for a shipment the caller owns.
C4_GetByIdIsolation ==
    [][ Called("getShipmentByIdAction") =>
          LET id == last'.args.id
              owned == /\ id \in DOMAIN shipments
                       /\ shipments[id].userId = last'.session
          IN /\ UNCHANGED <<consignees, exporters, shipments>>
             /\ IF owned
                THEN /\ ~last'.result.value.null
                     /\ last'.result.value.data.id = id
                     /\ last'.result.value.data.timeline = TimelineOf(shipments[id])
                ELSE last'.result = Return([null |-> TRUE]) ]_vars

\* A signed-in user asked for a shipment of another user and got null.
C4_Witness ==
    /\ last.op = "getShipmentByIdAction"
    /\ last.session \in Users
    /\ last.args.id \in DOMAIN shipments
    /\ shipments[last.args.id].userId # last.session
    /\ last.result = Return([null |-> TRUE])

-----------------------------------------------------------------------------
(* C5 *)

\* The caller of the step owns the shipment and the client the link names.
LinkAllowed(call) ==
    /\ call.args.shipmentId \in DOMAIN shipments
    /\ shipments[call.args.shipmentId].userId = call.session
    /\ IF call.args.type = "consignee"
       THEN /\ call.args.clientId \in DOMAIN consignees
            /\ consignees[call.args.clientId].userId = call.session
       ELSE /\ call.args.clientId \in DOMAIN exporters
            /\ exporters[call.args.clientId].userId = call.session

\* C5: linkClientToShipmentAction sets the consigneeId (or exporterId) of the
\* shipment to clientId when the caller owns the shipment and the client of
\* that type; otherwise it returns {success: false, error} and leaves every
\* stored row as it was.
C5_LinkChecksOwnership ==
    [][ Called("linkClientToShipmentAction") =>
          LET a == last'.args
          IN IF LinkAllowed(last')
             THEN /\ last'.result.value.success
                  /\ shipments' =
                       [shipments EXCEPT ![a.shipmentId] =
                          IF a.type = "consignee"
                          THEN [@ EXCEPT !.consigneeId = a.clientId]
                          ELSE [@ EXCEPT !.exporterId = a.clientId]]
             ELSE /\ ~last'.result.value.success
                  /\ "error" \in DOMAIN last'.result.value
                  /\ UNCHANGED <<consignees, exporters, shipments>> ]_vars

\* A user tried to link a consignee of another user to a shipment of their
\* own, and the call failed.
C5_Witness ==
    /\ last.op = "linkClientToShipmentAction"
    /\ last.args.type = "consignee"
    /\ last.args.shipmentId \in DOMAIN shipments
    /\ shipments[last.args.shipmentId].userId = last.session
    /\ last.args.clientId \in DOMAIN consignees
    /\ consignees[last.args.clientId].userId # last.session
    /\ ~last.result.value.success

-----------------------------------------------------------------------------
(* C6 *)

\* The call created a shipment.
Created(call) ==
    /\ call.op = "createShipmentAction"
    /\ call.result.outcome = "return"

\* C6 as claimed: a created shipment has no consignee link only when no
\* consignee input was supplied; and when the same owner creates two shipments
\* one after the other, each with a consignee input, of equal tin and different
\* name, the second is linked to the consignee of the first and adds no
\* consignee row.
C6_ConsigneeFindOrCreate ==
    [][ (Called("createShipmentAction") /\ Created(last')) =>
          LET new == last'.result.value.shipment
              formData == last'.args.formData
          IN /\ (new.consigneeId = 0) <=> ("consignee" \notin DOMAIN formData)
             /\ ( /\ Created(last)
                  /\ last.session = last'.session
                  /\ "consignee" \in DOMAIN last.args.formData
                  /\ "consignee" \in DOMAIN formData
                  /\ last.args.formData.consignee.tin = formData.consignee.tin
                  /\ last.args.formData.consignee.name # formData.consignee.name )
                => /\ new.consigneeId = last.result.value.shipment.consigneeId
                   /\ consignees' = consignees ]_vars

-----------------------------------------------------------------------------
(* C7 *)

\* C7 as claimed: a call without a session throws to its caller; it never
\* ends in a normal return value.
C7_UnauthorizedThrown ==
    (last.op # "none" /\ last.session = NoSession)
        => last.result.outcome = "throw"

-----------------------------------------------------------------------------
(* C8 *)

\* C8 as claimed: a successful processDocumentUploadAction keeps the length and
\* order of the stored documents list; every entry named documentType gets the
\* new file reference appended to its files and the status "draft", every other
\* entry is unchanged, and so is the list when no entry is named documentType.
C8_UploadFrame ==
    [][ (Called("processDocumentUploadAction") /\ last'.result.outcome = "return") =>
          LET id == last'.args.shipmentId
              before == DocumentsOf(shipments[id])
              after == DocumentsOf(shipments'[id])
              fileUrl == last'.result.value.fileUrl
          IN /\ Len(after) = Len(before)
             /\ \A i \in 1..Len(before) :
                  IF before[i].name = last'.args.documentType
                  THEN /\ after[i].name = before[i].name
                       /\ after[i].status = "draft"
                       /\ after[i].files =
                            Append(IF "files" \in DOMAIN before[i]
                                   THEN before[i].files ELSE <<>>, fileUrl)
                  ELSE after[i] = before[i] ]_vars

-----------------------------------------------------------------------------
(* C9 *)

\* C9: a shipment just created has the status CLIENT_DETAILS, a timeline of
\* exactly one entry, whose status is CLIENT_DETAILS, notes that are the empty
\* list [] and computations that are the empty map {}, whatever shipmentType
\* and formData the call supplied: a status, a timeline, notes and
\* computations in the form data are not taken over.
C9_CreatedShape ==
    Created(last) =>
        LET shipment == shipments[last.result.value.shipment.id]
        IN /\ shipment = last.result.value.shipment
           /\ shipment.status = "CLIENT_DETAILS"
           /\ Len(TimelineOf(shipment)) = 1
           /\ TimelineOf(shipment)[1].status = "CLIENT_DETAILS"
           /\ JSONparse(shipment.notesData) = EmptyArray
           /\ JSONparse(shipment.computations) = EmptyObject

\* A shipment created second, of type IAS, from form data with documents
\* and with a status, a timeline, notes and computations of its own.
C9_Witness ==
    /\ Created(last)
    /\ last.args.shipmentType = "IAS"
    /\ "documents" \in DOMAIN last.args.formData
    /\ {"status", "timeline", "notes", "computations"}
           \subseteq DOMAIN last.args.formData
    /\ Cardinality(DOMAIN shipments) = 2

-----------------------------------------------------------------------------
(* C10 *)

\* C10 as claimed: every shipment that is linked to a consignee or an exporter
\* is linked to one that the owner of the shipment owns.
C10_LinksStayWithOwner ==
    \A id \in DOMAIN shipments :
        /\ shipments[id].consigneeId # 0 =>
             consignees[shipments[id].consigneeId].userId = shipments[id].userId
        /\ shipments[id].exporterId # 0 =>
             exporters[shipments[id].exporterId].userId = shipments[id].userId

-----------------------------------------------------------------------------
(* C11 *)

\* The step is the write of the i-th upload in flight, which returns success.
UploadWritten(i) ==
    /\ Called("processDocumentUploadAction")
    /\ last'.result.outcome = "return"
    /\ inflight[i].args = last'.args
    /\ inflight[i].session = last'.session
    /\ inflight' = RemoveAt(inflight, i)

\* The documents hold an entry of that name, of status draft, with the file.
HoldsUpload(documents, documentType, fileUrl) ==
    \E k \in 1..Len(documents) :
        /\ documents[k].name = documentType
        /\ documents[k].status = "draft"
        /\ "files" \in DOMAIN documents[k]
        /\ \E n \in 1..Len(documents[k].files) : documents[k].files[n] = fileUrl

\* The stored documents of the shipment have an entry of that name.
InChecklist(id, documentType) ==
    \E k \in 1..Len(DocumentsOf(shipments[id])) :
        DocumentsOf(shipments[id])[k].name = documentType

\* C11 as claimed: when an upload returns success right after another upload
\* to the same shipment returned success, the two for different document types
\* of the checklist, and the later one had read the shipment before the
\* earlier one wrote (they ran concurrently), the stored documents hold both
\* uploaded file references, in entries of status "draft".
C11_NoUploadLost ==
    [][ \A i \in 1..Len(inflight) :
          ( /\ UploadWritten(i)
            /\ last.op = "processDocumentUploadAction"
            /\ last.result.outcome = "return"
            /\ last.args.shipmentId = last'.args.shipmentId
            /\ last.args.documentType # last'.args.documentType
            /\ InChecklist(last.args.shipmentId, last.args.documentType)
            /\ InChecklist(last.args.shipmentId, last'.args.documentType)
            /\ inflight[i].startedAt <= last.result.value.fileUrl.timestamp )
          => LET documents == DocumentsOf(shipments'[last'.args.shipmentId])
             IN /\ HoldsUpload(documents, last.args.documentType,
                               last.result.value.fileUrl)
                /\ HoldsUpload(documents, last'.args.documentType,
                               last'.result.value.fileUrl) ]_vars

====
